---- MODULE Spec2Model ----
(***************************************************************************)
(* A model of tensorflow_caney's band-index utilities                      *)
(* (utils/indices.py) and optimizer resolver (utils/optimizers.py).        *)
(*                                                                         *)
(* Strings are TLA+ strings; str.lower() is the table lower_table over the *)
(* spellings the model draws from.  A band of a raster is a symbolic       *)
(* value: a raw band carries the position it had in the raster as it was   *)
(* built, a computed band carries the formula's name and the bands the     *)
(* formula read.  Python objects that are shared by reference (the         *)
(* band_names list, the DataArray objects) live in heaps indexed by        *)
(* object id.                                                              *)
(***************************************************************************)
EXTENDS Integers, Sequences, FiniteSets, TLC

VARIABLES
    lists,      \* heap of Python list objects: id -> sequence of names
    rasters,    \* heap of DataArray objects the caller can hold: id ->
                \*   [data, coords, names]; names is the id of the list that
                \*   attrs['band_names'] refers to, 0 when the key is unset
    pc,         \* "idle" between calls, "loop" inside add_indices' for loop
    frame,      \* the locals of the running (or last) add_indices call
    ret,        \* how the last add_indices call ended
    hist,       \* the completed add_indices calls, oldest first
    call,       \* the pure function under test and its arguments
    result      \* what that function returned or raised

vars == <<lists, rasters, pc, frame, ret, hist, call, result>>

\* ------------------------------------------------------------------------
\* Bounds of the model
\* ------------------------------------------------------------------------
MaxLocBands == 4    \* longest band list given to _get_band_locations
MaxReq == 2         \* longest requested_bands list
MaxBands == 5       \* most bands of a raster given to cire / fdi
MaxPath == 4        \* longest dotted name given to get_optimizer
MaxCalls == 2       \* add_indices calls in one run of Spec
MaxIn == 3          \* longest input_bands list in SpecCall
MaxOut == 2         \* longest output_bands list in SpecCall

\* ------------------------------------------------------------------------
\* Generic helpers
\* ------------------------------------------------------------------------
Range(s) == {s[i] : i \in DOMAIN s}

SeqsUpTo(S, n) == UNION {[1..k -> S] : k \in 0..n}

Ok(v) == [kind |-> "ok", val |-> v]

Raise(k, m) == [kind |-> k, val |-> m]

None == [kind |-> "none", val |-> <<>>]

\* ------------------------------------------------------------------------
\* str.lower()
\* ------------------------------------------------------------------------
lower_table ==
    [BAI |-> "bai", Bai |-> "bai", CIG |-> "cig", Cig |-> "cig",
     CIRE |-> "cire", Cire |-> "cire", CM |-> "cm", Cm |-> "cm",
     CS1 |-> "cs1", Cs1 |-> "cs1", CS2 |-> "cs2", Cs2 |-> "cs2",
     DVI |-> "dvi", Dvi |-> "dvi", DWI |-> "dwi", Dwi |-> "dwi",
     FDI |-> "fdi", Fdi |-> "fdi", GNDVI |-> "gndvi", Gndvi |-> "gndvi",
     NDVI |-> "ndvi", Ndvi |-> "ndvi", nDvI |-> "ndvi",
     NDWI |-> "ndwi", Ndwi |-> "ndwi", SI |-> "si", Si |-> "si",
     SR |-> "sr", Sr |-> "sr", EVI |-> "evi", Evi |-> "evi",
     NDV |-> "ndv", NVDI |-> "nvdi", NDVII |-> "ndvii",
     RED |-> "red", Red |-> "red", NIR1 |-> "nir1", Nir1 |-> "nir1",
     BLUE |-> "blue", Blue |-> "blue", GREEN |-> "green", Green |-> "green",
     SWIR1 |-> "swir1", REDEDGE |-> "rededge"]

lower(s) == IF s \in DOMAIN lower_table THEN lower_table[s] ELSE s

\* The lists taken as they were passed, lower-casing forgotten.
lower_all_identity(names) == names

lower_all(names) == [i \in DOMAIN names |-> lower(names[i])]

\* ------------------------------------------------------------------------
\* _get_band_locations
\* ------------------------------------------------------------------------
\* The position counted from 1 instead of 0.
index_of_one_based(bands, x) ==
    CHOOSE i \in 1..Len(bands) :
        /\ bands[i] = x
        /\ \A j \in 1..(i - 1) : bands[j] # x

\* list.index(x): the 0-based position of the first occurrence of x.
index_of(bands, x) ==
    CHOOSE i \in 0..(Len(bands) - 1) :
        /\ bands[i + 1] = x
        /\ \A j \in 0..(i - 1) : bands[j + 1] # x

NotFound(b, bands) ==
    Raise("ValueError",
          [fmt |-> "{b} not in raster bands {bands}", b |-> b, bands |-> bands])

RECURSIVE locations_from(_, _, _, _)
locations_from(bands, requested_bands, i, locations) ==
    IF i > Len(requested_bands) THEN Ok(locations)
    ELSE LET b == requested_bands[i]
         IN IF lower(b) \in Range(bands)
            THEN locations_from(bands, requested_bands, i + 1,
                                Append(locations, index_of(bands, lower(b))))
            ELSE NotFound(b, bands)

_get_band_locations(bands, requested_bands) ==
    locations_from(bands, requested_bands, 1, <<>>)

\* ------------------------------------------------------------------------
\* Index functions.  A raster value is [data, band_names]: the bands along
\* the band axis and the list attrs['band_names'] refers to.
\* ------------------------------------------------------------------------
RawBand(i) == [op |-> "raw", id |-> i, args |-> <<>>]

\* raster[loc, :, :] for every location, combined by the formula named op;
\* positional indexing past the band axis raises IndexError.
formula(op, raster, locs) ==
    IF locs.kind # "ok" THEN locs
    ELSE IF \E i \in DOMAIN locs.val : locs.val[i] >= Len(raster.data)
    THEN Raise("IndexError", [fmt |-> "index out of bounds", b |-> op,
                              bands |-> raster.band_names])
    ELSE Ok([op |-> op, id |-> 0,
             args |-> [i \in DOMAIN locs.val |-> raster.data[locs.val[i] + 1]]])

\* 1 / ((0.1 - args[1])^2 + (0.06 - args[2])^2)
bai(raster) ==
    formula("bai", raster, _get_band_locations(raster.band_names, <<"red", "nir1">>))

\* args[1] / args[2] - 1
cig(raster) ==
    formula("cig", raster, _get_band_locations(raster.band_names, <<"nir1", "green">>))

\* The fallback forgotten: the canonical pair whatever the raster holds.
cire_bands_canonical(band_names) == <<"nir1", "rededge">>

\* Lines 72-74: the band names cire asks for.
cire_bands(band_names) ==
    IF ~(\A i \in DOMAIN band_names : band_names[i] \in Range(<<"nir1", "rededge">>))
    THEN <<"nir1", "red">>
    ELSE <<"nir1", "rededge">>

\* args[1] / args[2] - 1
cire(raster) ==
    formula("cire", raster,
            _get_band_locations(raster.band_names, cire_bands(raster.band_names)))

\* args[1] / args[2]
cm(raster) ==
    formula("cm", raster, _get_band_locations(raster.band_names, <<"swir1", "swir2">>))

\* 3 * args[1] / (args[3] + args[4] + args[2])
cs1(raster) ==
    formula("cs1", raster,
            _get_band_locations(raster.band_names, <<"nir1", "red", "blue", "green">>))

\* (args[3] + args[4] + args[2] + args[1]) / 4
cs2(raster) ==
    formula("cs2", raster,
            _get_band_locations(raster.band_names, <<"nir1", "red", "blue", "green">>))

\* args[1] - args[2]
dvi(raster) ==
    formula("dvi", raster, _get_band_locations(raster.band_names, <<"nir1", "red">>))

\* args[2] - args[1]
dwi(raster) ==
    formula("dwi", raster, _get_band_locations(raster.band_names, <<"nir1", "green">>))

\* 2.5 * (args[3] - args[1]) / (args[3] + 6 * args[1] - 7.5 * args[2] + 1)
evi(raster) ==
    formula("evi", raster,
            _get_band_locations(raster.band_names, <<"red", "blue", "nir1">>))

\* Lines 177-179: the band names fdi asks for.
fdi_bands(band_names) ==
    IF ~(\A i \in DOMAIN band_names :
            band_names[i] \in Range(<<"blue", "nir2", "rededge">>))
    THEN <<"blue", "nir1", "red">>
    ELSE <<"blue", "nir2", "rededge">>

\* args[2] - (args[3] + args[1])
fdi(raster) ==
    formula("fdi", raster,
            _get_band_locations(raster.band_names, fdi_bands(raster.band_names)))

\* (args[1] - args[2]) / (args[1] + args[2])
gndvi(raster) ==
    formula("gndvi", raster, _get_band_locations(raster.band_names, <<"nir1", "green">>))

\* (args[1] - args[2]) / (args[1] + args[2])
ndvi(raster) ==
    formula("ndvi", raster, _get_band_locations(raster.band_names, <<"nir1", "red">>))

\* (args[2] - args[1]) / (args[2] + args[1])
ndwi(raster) ==
    formula("ndwi", raster, _get_band_locations(raster.band_names, <<"nir1", "green">>))

\* (args[2] - args[3] / args[1]) ** (1/3)
si(raster) ==
    formula("si", raster,
            _get_band_locations(raster.band_names, <<"red", "blue", "green">>))

\* args[1] / args[2]
sr(raster) ==
    formula("sr", raster, _get_band_locations(raster.band_names, <<"nir1", "red">>))

\* ------------------------------------------------------------------------
\* Registry and dispatch
\* ------------------------------------------------------------------------
\* The registry maps a name to the function object of that name; a function
\* object is denoted by its name.
indices_registry ==
    [bai |-> "bai", cig |-> "cig", cire |-> "cire", cm |-> "cm",
     cs1 |-> "cs1", cs2 |-> "cs2", dvi |-> "dvi", dwi |-> "dwi",
     fdi |-> "fdi", gndvi |-> "gndvi", ndvi |-> "ndvi", ndwi |-> "ndwi",
     si |-> "si", sr |-> "sr"]

InvalidMapping(index_key) ==
    Raise("ValueError", [fmt |-> "Invalid indices mapping: {index_key}.",
                         b |-> index_key, bands |-> <<>>])

\* The registry looked up with the key as passed.
get_index_function_case_sensitive(index_key) ==
    IF index_key \in DOMAIN indices_registry
    THEN Ok(indices_registry[index_key])
    ELSE InvalidMapping(index_key)

_get_index_function(index_key) ==
    IF lower(index_key) \in DOMAIN indices_registry
    THEN Ok(indices_registry[lower(index_key)])
    ELSE InvalidMapping(index_key)

\* Calling the function object f on a raster.
apply_index(f, raster) ==
    CASE f = "bai" -> bai(raster)
      [] f = "cig" -> cig(raster)
      [] f = "cire" -> cire(raster)
      [] f = "cm" -> cm(raster)
      [] f = "cs1" -> cs1(raster)
      [] f = "cs2" -> cs2(raster)
      [] f = "dvi" -> dvi(raster)
      [] f = "dwi" -> dwi(raster)
      [] f = "evi" -> evi(raster)
      [] f = "fdi" -> fdi(raster)
      [] f = "gndvi" -> gndvi(raster)
      [] f = "ndvi" -> ndvi(raster)
      [] f = "ndwi" -> ndwi(raster)
      [] f = "si" -> si(raster)
      [] f = "sr" -> sr(raster)

\* ------------------------------------------------------------------------
\* get_optimizer
\* ------------------------------------------------------------------------
\* An optimizer string is the sequence of the tokens between its dots:
\* "tf.keras.optimizers.Adam" is <<"tf", "keras", "optimizers", "Adam">>.
\* The names eval() can see: the module's globals and the local 'optimizer'.
eval_names == {"sys", "tf", "sm", "tfa", "Any", "get_optimizer", "optimizer"}

\* The attribute paths that exist in the imported namespaces.
eval_attributes ==
    {<<"tf", "keras">>, <<"tf", "keras", "optimizers">>,
     <<"tf", "keras", "optimizers", "Adam">>,
     <<"tf", "keras", "optimizers", "SGD">>,
     <<"tfa", "optimizers">>, <<"tfa", "optimizers", "AdamW">>,
     <<"sm", "losses">>, <<"sys", "exit">>}

IsIdentifier(tok) == tok \notin {"(", ""}

\* eval(expression): the expression is parsed first, then its first name is
\* looked up, then each attribute in turn.
eval(expression) ==
    IF Len(expression) = 0 \/ \E i \in DOMAIN expression : ~IsIdentifier(expression[i])
    THEN Raise("SyntaxError", [fmt |-> "invalid syntax", b |-> "", bands |-> expression])
    ELSE IF expression[1] \notin eval_names
    THEN Raise("NameError", [fmt |-> "name '{b}' is not defined",
                             b |-> expression[1], bands |-> expression])
    ELSE IF \E k \in 2..Len(expression) : SubSeq(expression, 1, k) \notin eval_attributes
    THEN Raise("AttributeError", [fmt |-> "has no attribute", b |-> "",
                                  bands |-> expression])
    ELSE Ok(expression)

\* 'except Exception' in place of 'except NameError'.
get_optimizer_catch_all(optimizer) ==
    LET evaluated == eval(optimizer)
    IN IF evaluated.kind # "ok"
       THEN Raise("SystemExit",
                  [fmt |-> "{err}. Accepted optimizers from {tf}, {sm}, {tfa}",
                   b |-> evaluated.val.b, bands |-> optimizer])
       ELSE evaluated

get_optimizer(optimizer) ==
    LET evaluated == eval(optimizer)
    IN IF evaluated.kind = "NameError"
       THEN Raise("SystemExit",
                  [fmt |-> "{err}. Accepted optimizers from {tf}, {sm}, {tfa}",
                   b |-> evaluated.val.b, bands |-> optimizer])
       ELSE evaluated

\* ------------------------------------------------------------------------
\* SpecFn: one call of a pure function on arguments drawn by InitFn
\* ------------------------------------------------------------------------
NoFrame == [arg |-> 0]

NoCall == [fn |-> "none"]

LocBandPool == {"blue", "red", "nir1", "NIR1"}

LocRequestPool == {"nir1", "red", "NIR1", "swir1"}

IndexKeys ==
    DOMAIN indices_registry \cup DOMAIN lower_table
        \cup {"evi", "ndv", "nvdi", "ndvii", "", "red", "nir1", "ndvi "}

RasterBandPool == {"blue", "red", "rededge", "nir1", "nir2"}

IndexUnderTest == {"cire", "fdi"}

OptimizerTokens == {"tf", "keras", "optimizers", "Adam", "torch", "("}

\* A raster as it is built: one raw band per name.
NewRaster(band_names) ==
    [data |-> [i \in DOMAIN band_names |-> RawBand(i)], band_names |-> band_names]

InitFn ==
    /\ lists = <<>>
    /\ rasters = <<>>
    /\ pc = "idle"
    /\ frame = NoFrame
    /\ ret = None
    /\ hist = <<>>
    /\ result = None
    /\ \/ \E bands \in SeqsUpTo(LocBandPool, MaxLocBands),
            requested_bands \in SeqsUpTo(LocRequestPool, MaxReq) :
            call = [fn |-> "_get_band_locations", bands |-> bands,
                    requested_bands |-> requested_bands]
       \/ \E index_key \in IndexKeys :
            call = [fn |-> "_get_index_function", index_key |-> index_key]
       \/ \E f \in IndexUnderTest, band_names \in SeqsUpTo(RasterBandPool, MaxBands) :
            call = [fn |-> f, raster |-> NewRaster(band_names)]
       \/ \E optimizer \in SeqsUpTo(OptimizerTokens, MaxPath) :
            call = [fn |-> "get_optimizer", optimizer |-> optimizer]

CallGetBandLocations ==
    /\ call.fn = "_get_band_locations"
    /\ result = None
    /\ result' = _get_band_locations(call.bands, call.requested_bands)
    /\ UNCHANGED <<lists, rasters, pc, frame, ret, hist, call>>

CallGetIndexFunction ==
    /\ call.fn = "_get_index_function"
    /\ result = None
    /\ result' = _get_index_function(call.index_key)
    /\ UNCHANGED <<lists, rasters, pc, frame, ret, hist, call>>

CallIndex ==
    /\ call.fn \in IndexUnderTest
    /\ result = None
    /\ result' = apply_index(call.fn, call.raster)
    /\ UNCHANGED <<lists, rasters, pc, frame, ret, hist, call>>

CallGetOptimizer ==
    /\ call.fn = "get_optimizer"
    /\ result = None
    /\ result' = get_optimizer(call.optimizer)
    /\ UNCHANGED <<lists, rasters, pc, frame, ret, hist, call>>

NextFn ==
    \/ CallGetBandLocations
    \/ CallGetIndexFunction
    \/ CallIndex
    \/ CallGetOptimizer

SpecFn == InitFn /\ [][NextFn]_vars

\* ------------------------------------------------------------------------
\* add_indices
\* ------------------------------------------------------------------------
\* A DataArray object is [data, coords, names]: its bands, the 'band'
\* coordinate of each, and the id of the list attrs['band_names'] refers to.
\* Deref is the raster with the list behind its band_names read out of the heap ls.
Deref(ls, raster) == [data |-> raster.data, band_names |-> ls[raster.names]]

\* list.append(x) on the list object id.
list_append(ls, id, x) == [ls EXCEPT ![id] = Append(@, x)]

\* The two arrays concatenated in the wrong order.
concat_prepend(ls, xraster, new_index, coord) ==
    [lists |-> ls,
     raster |-> [data |-> <<new_index>> \o xraster.data,
                 coords |-> <<coord>> \o xraster.coords,
                 names |-> xraster.names]]

\* The attrs deep-copied: the result gets a band_names list of its own.
concat_deepcopy(ls, xraster, new_index, coord) ==
    [lists |-> Append(ls, ls[xraster.names]),
     raster |-> [data |-> Append(xraster.data, new_index),
                 coords |-> Append(xraster.coords, coord),
                 names |-> Len(ls) + 1]]

\* xr.concat([xraster, new_index], dim='band') where new_index carries the
\* coordinate coord: a new DataArray whose attrs are a shallow copy of the
\* first array's, so band_names refers to the same list object.
concat(ls, xraster, new_index, coord) ==
    [lists |-> ls,
     raster |-> [data |-> Append(xraster.data, new_index),
                 coords |-> Append(xraster.coords, coord),
                 names |-> xraster.names]]

\* Lines 304-308: lower-case both lists into new list objects, point the
\* raster's attrs['band_names'] at the new input_bands list, start counting.
Enter(x, input_bands, output_bands) ==
    LET id == Len(lists) + 1
    IN /\ pc = "idle"
       /\ x \in DOMAIN rasters
       /\ lists' = Append(lists, lower_all(input_bands))
       /\ rasters' = [rasters EXCEPT ![x].names = id]
       /\ frame' = [arg |-> x,
                    xraster |-> [rasters[x] EXCEPT !.names = id],
                    fresh |-> FALSE,
                    input_bands |-> id,
                    output_bands |-> lower_all(output_bands),
                    n_bands |-> Len(input_bands),
                    i |-> 1,
                    passed_input |-> input_bands,
                    passed_output |-> output_bands,
                    passed_data |-> rasters[x].data]
       /\ pc' = "loop"
       /\ ret' = None
       /\ UNCHANGED <<hist, result>>

\* What the caller has seen of a call once it is over.
Completed(outcome, heap_rasters, heap_lists) ==
    [arg |-> frame.arg,
     input_bands |-> frame.passed_input,
     output_bands |-> frame.passed_output,
     well_formed |-> Len(frame.passed_input) = Len(frame.passed_data),
     ret |-> outcome,
     bands |-> IF outcome.kind = "ok"
               THEN Len(heap_rasters[outcome.val].data) ELSE 0,
     band_names |-> IF outcome.kind = "ok"
                    THEN heap_lists[heap_rasters[outcome.val].names] ELSE <<>>]

InLoop == pc = "loop" /\ frame.i <= Len(frame.output_bands)

band_id == frame.output_bands[frame.i]

\* Line 313 is false: the name is in the list input_bands refers to.
LoopSkip ==
    /\ InLoop
    /\ band_id \in Range(lists[frame.input_bands])
    /\ frame' = [frame EXCEPT !.i = @ + 1]
    /\ UNCHANGED <<lists, rasters, pc, ret, hist, call, result>>

index_function == _get_index_function(band_id)

new_index == apply_index(index_function.val, Deref(lists, frame.xraster))

\* Lines 316-327 run to the end.
LoopAppend ==
    /\ InLoop
    /\ band_id \notin Range(lists[frame.input_bands])
    /\ index_function.kind = "ok"
    /\ new_index.kind = "ok"
    /\ LET n_bands == frame.n_bands + 1
           joined == concat(lists, frame.xraster, new_index.val, n_bands)
       IN /\ lists' = list_append(joined.lists, joined.raster.names, band_id)
          /\ frame' = [frame EXCEPT !.n_bands = n_bands,
                                    !.xraster = joined.raster,
                                    !.fresh = TRUE,
                                    !.i = @ + 1]
    /\ UNCHANGED <<rasters, pc, ret, hist, call, result>>

\* Line 319 or line 320 raises: the error leaves add_indices.
LoopRaise ==
    /\ InLoop
    /\ band_id \notin Range(lists[frame.input_bands])
    /\ LET error == IF index_function.kind # "ok" THEN index_function ELSE new_index
       IN /\ error.kind # "ok"
          /\ ret' = error
          /\ hist' = Append(hist, Completed(error, rasters, lists))
    /\ frame' = [frame EXCEPT !.n_bands = @ + 1]
    /\ pc' = "idle"
    /\ UNCHANGED <<lists, rasters, call, result>>

\* Line 329: the caller receives the object xraster names now, which is the
\* object it passed when nothing was appended.
Return ==
    /\ pc = "loop"
    /\ frame.i > Len(frame.output_bands)
    /\ LET heap == IF frame.fresh THEN Append(rasters, frame.xraster) ELSE rasters
           outcome == Ok(IF frame.fresh THEN Len(heap) ELSE frame.arg)
       IN /\ rasters' = heap
          /\ ret' = outcome
          /\ hist' = Append(hist, Completed(outcome, heap, lists))
    /\ pc' = "idle"
    /\ UNCHANGED <<lists, frame, call, result>>

\* A raster as the caller builds it: raw bands, coordinates 1..n, no
\* band_names in its attrs yet.
BuiltRaster(n) ==
    [data |-> [i \in 1..n |-> RawBand(i)], coords |-> [i \in 1..n |-> i], names |-> 0]

\* ------------------------------------------------------------------------
\* Spec: a caller that holds rasters and calls add_indices up to MaxCalls
\* times, on the raster it built or on one a call returned
\* ------------------------------------------------------------------------
SceneBands == <<"blue", "green", "red", "nir1">>

CallInputs(x) ==
    {SceneBands, <<"Blue", "Green", "Red", "NIR1">>}
        \cup (IF rasters[x].names # 0 THEN {lists[rasters[x].names]} ELSE {})

CallOutputs ==
    {SceneBands \o <<"ndvi">>, <<"red", "nir1">>, <<"NDVI", "cire">>,
     <<"ndvi", "evi">>, <<"cm">>}

Init ==
    /\ lists = <<>>
    /\ rasters = <<BuiltRaster(Len(SceneBands))>>
    /\ pc = "idle"
    /\ frame = NoFrame
    /\ ret = None
    /\ hist = <<>>
    /\ call = NoCall
    /\ result = None

Call ==
    /\ Len(hist) < MaxCalls
    /\ \E x \in DOMAIN rasters :
         \E input_bands \in CallInputs(x), output_bands \in CallOutputs :
            Enter(x, input_bands, output_bands)
    /\ UNCHANGED call

Next ==
    \/ Call
    \/ LoopSkip
    \/ LoopAppend
    \/ LoopRaise
    \/ Return

Spec == Init /\ [][Next]_vars

\* ------------------------------------------------------------------------
\* SpecCall: one add_indices call on a raster built with one band per
\* input_bands name, with the two lists drawn by InitCall
\* ------------------------------------------------------------------------
InputPool == {"nir1", "Red", "rededge", "blue"}

OutputPool == {"ndvi", "NDVI", "cire", "fdi", "evi", "red"}

InitCall ==
    /\ lists = <<>>
    /\ pc = "idle"
    /\ frame = NoFrame
    /\ ret = None
    /\ hist = <<>>
    /\ result = None
    /\ \E input_bands \in SeqsUpTo(InputPool, MaxIn),
         output_bands \in SeqsUpTo(OutputPool, MaxOut) :
         /\ rasters = <<BuiltRaster(Len(input_bands))>>
         /\ call = [fn |-> "add_indices", input_bands |-> input_bands,
                    output_bands |-> output_bands]

CallOnce ==
    /\ call.fn = "add_indices"
    /\ hist = <<>>
    /\ Enter(1, call.input_bands, call.output_bands)
    /\ UNCHANGED call

NextCall ==
    \/ CallOnce
    \/ LoopSkip
    \/ LoopAppend
    \/ LoopRaise
    \/ Return

SpecCall == InitCall /\ [][NextCall]_vars

\* ------------------------------------------------------------------------
\* Properties
\* ------------------------------------------------------------------------
\* The names of a list in lower case, letter by letter.
Lowered(names) == [i \in DOMAIN names |-> lower(names[i])]

\* The names of out that are not in present, each once, in the order of
\* their first appearance.
RECURSIVE MissingNames(_, _)
MissingNames(present, out) ==
    IF out = <<>> THEN <<>>
    ELSE IF Head(out) \in Range(present)
    THEN MissingNames(present, Tail(out))
    ELSE <<Head(out)>> \o MissingNames(Append(present, Head(out)), Tail(out))

\* The band of a raster value stored under the first occurrence of a name.
BandNamed(raster, name) ==
    raster.data[CHOOSE i \in DOMAIN raster.band_names :
                    /\ raster.band_names[i] = name
                    /\ \A j \in 1..(i - 1) : raster.band_names[j] # name]

Returned == pc = "idle" /\ hist # <<>> /\ ret.kind = "ok"

Applied(fn) == call.fn = fn /\ result # None

RegisteredNames ==
    {"bai", "cig", "cire", "cm", "cs1", "cs2", "dvi", "dwi", "fdi", "gndvi",
     "ndvi", "ndwi", "si", "sr"}

\* C1: between calls, as long as every call so far passed an input_bands
\* list as long as the band axis of the raster it was given, every raster
\* object that has a band_names list (the one passed in, the one returned,
\* also after a call that raised) has as many names as bands.
C1_NamesMatchBands ==
    (pc = "idle" /\ \A k \in DOMAIN hist : hist[k].well_formed)
        => \A r \in DOMAIN rasters :
              rasters[r].names # 0
                  => Len(lists[rasters[r].names]) = Len(rasters[r].data)

\* C2: a call that returns gives a raster whose first len(input_bands)
\* bands are the input bands, unchanged and in order, followed by one band
\* per lower-cased output_bands name missing from the lower-cased
\* input_bands, in order of appearance; the k-th appended band has
\* coordinate len(input_bands) + k and its name at the matching position of
\* band_names; with nothing missing the band count is unchanged.
C2_AppendsMissingInOrder ==
    Returned =>
        LET in == Lowered(call.input_bands)
            missing == MissingNames(in, Lowered(call.output_bands))
            r == rasters[ret.val]
            names == lists[r.names]
            n == Len(in)
        IN /\ Len(r.data) = n + Len(missing)
           /\ Len(names) = n + Len(missing)
           /\ Len(r.coords) = n + Len(missing)
           /\ \A i \in 1..n : r.data[i] = RawBand(i) /\ names[i] = in[i]
           /\ \A k \in 1..Len(missing) :
                /\ r.data[n + k].op = missing[k]
                /\ r.coords[n + k] = n + k
                /\ names[n + k] = missing[k]
           /\ missing = <<>> => ret.val = frame.arg /\ Len(r.data) = n

C2_Witness ==
    /\ Returned
    /\ call.fn = "add_indices"
    /\ call.input_bands = <<"Red", "nir1">>
    /\ call.output_bands = <<"cire", "NDVI">>
    /\ rasters[ret.val].coords = <<1, 2, 3, 4>>
    /\ lists[rasters[ret.val].names] = <<"red", "nir1", "cire", "ndvi">>

\* C3: a second call on the raster the first call returned, with the same
\* input_bands and output_bands, appends nothing: its result has the band
\* count and the band_names of the first call's result.
C3_SecondCallAppendsNothing ==
    pc = "idle" =>
        \A k \in 1..(Len(hist) - 1) :
            ( /\ hist[k].ret.kind = "ok"
              /\ hist[k + 1].ret.kind = "ok"
              /\ hist[k + 1].arg = hist[k].ret.val
              /\ hist[k + 1].input_bands = hist[k].input_bands
              /\ hist[k + 1].output_bands = hist[k].output_bands )
            => /\ hist[k + 1].bands = hist[k].bands
               /\ hist[k + 1].band_names = hist[k].band_names

\* C4: _get_band_locations returns one location per requested name, in the
\* order requested, each the position in bands of the lower-cased name; if
\* a requested name is absent it raises ValueError naming the first absent
\* name as passed and the whole band list, and returns no list.
C4_BandLocations ==
    Applied("_get_band_locations") =>
        LET bands == call.bands
            requested == call.requested_bands
            absent == {i \in DOMAIN requested : lower(requested[i]) \notin Range(bands)}
        IN IF absent = {}
           THEN /\ result.kind = "ok"
                /\ Len(result.val) = Len(requested)
                /\ \A i \in DOMAIN requested :
                     /\ result.val[i] \in 0..(Len(bands) - 1)
                     /\ bands[result.val[i] + 1] = lower(requested[i])
           ELSE /\ result.kind = "ValueError"
                /\ \E i \in absent :
                     /\ \A j \in absent : i <= j
                     /\ result.val.b = requested[i]
                /\ result.val.bands = bands

C4_Witness ==
    /\ Applied("_get_band_locations")
    /\ result.kind = "ok"
    /\ Len(result.val) = 2
    /\ result.val[1] > result.val[2]
    /\ call.requested_bands[1] = "NIR1"

\* C5: _get_index_function returns, for a key that is one of the 14
\* registered names in any letter case, the function of that name, and for
\* every other key raises ValueError carrying the key exactly as passed.
C5_IndexDispatch ==
    Applied("_get_index_function") =>
        IF lower(call.index_key) \in RegisteredNames
        THEN result = Ok(lower(call.index_key))
        ELSE /\ result.kind = "ValueError"
             /\ result.val.b = call.index_key

C5_Witness ==
    /\ Applied("_get_index_function")
    /\ call.index_key = "Gndvi"
    /\ result = Ok("gndvi")

\* C6: cire on a raster whose band_names holds 'nir1' and 'rededge' divides
\* the nir1 band by the rededge band; fdi on a raster whose band_names holds
\* 'nir2', 'blue', 'red', 'rededge' and 'nir1' computes nir2 - (red + blue)
\* from the nir2 band.
C6_CanonicalBands ==
    /\ (Applied("cire") /\ {"nir1", "rededge"} \subseteq Range(call.raster.band_names))
          => /\ result.kind = "ok"
             /\ result.val.args = <<BandNamed(call.raster, "nir1"),
                                    BandNamed(call.raster, "rededge")>>
    /\ (Applied("fdi") /\ {"nir2", "blue", "red", "rededge", "nir1"}
                              \subseteq Range(call.raster.band_names))
          => /\ result.kind = "ok"
             /\ result.val.args = <<BandNamed(call.raster, "blue"),
                                    BandNamed(call.raster, "nir2"),
                                    BandNamed(call.raster, "red")>>

\* C7: cire on a raster whose band_names lacks 'rededge' and holds 'nir1'
\* and 'red' raises nothing and divides the nir1 band by the red band.
C7_CireFallback ==
    ( /\ Applied("cire")
      /\ "rededge" \notin Range(call.raster.band_names)
      /\ {"nir1", "red"} \subseteq Range(call.raster.band_names) )
        => /\ result.kind = "ok"
           /\ result.val.op = "cire"
           /\ result.val.args = <<BandNamed(call.raster, "nir1"),
                                  BandNamed(call.raster, "red")>>

C7_Witness ==
    /\ Applied("cire")
    /\ result.kind = "ok"
    /\ call.raster.band_names = <<"blue", "red", "nir2", "nir1">>

\* C8 as stated: get_optimizer returns what the string evaluates to, and
\* every string whose evaluation fails ends the process.
C8_EveryFailureExits ==
    Applied("get_optimizer") =>
        IF eval(call.optimizer).kind = "ok"
        THEN result = eval(call.optimizer)
        ELSE result.kind = "SystemExit"

\* C8 as amended: get_optimizer returns what the string evaluates to; it
\* ends the process when the evaluation raises NameError; any other error
\* of the evaluation leaves get_optimizer as that exception.
C8_ExitOnNameErrorOnly ==
    Applied("get_optimizer") =>
        LET evaluated == eval(call.optimizer)
        IN /\ evaluated.kind = "ok" => result = evaluated
           /\ evaluated.kind = "NameError"
                => result.kind = "SystemExit" /\ result.val.b = call.optimizer[1]
           /\ evaluated.kind \notin {"ok", "NameError"} => result = evaluated

C8_Witness ==
    /\ Applied("get_optimizer")
    /\ call.optimizer = <<"tf", "keras", "Adam">>
    /\ result.kind = "AttributeError"

\* C9: every band a returned call appended equals the index function of
\* its name applied directly to the raster as it was passed, with
\* band_names the lower-cased input_bands.
C9_NoInterIndexDependency ==
    Returned =>
        LET in == Lowered(call.input_bands)
            r == rasters[ret.val]
            names == lists[r.names]
            original == [data |-> BuiltRaster(Len(in)).data, band_names |-> in]
        IN \A j \in (Len(in) + 1)..Len(r.data) :
              /\ j \in DOMAIN names
              /\ names[j] \in RegisteredNames
              /\ apply_index(names[j], original) = Ok(r.data[j])

C9_Witness ==
    /\ Returned
    /\ call.fn = "add_indices"
    /\ Len(rasters[ret.val].data) = Len(call.input_bands) + 2
    /\ lists[rasters[ret.val].names][Len(call.input_bands) + 2] = "cire"

\* C10: inside the loop every name appended so far is in the list the
\* membership test reads; a returned call has appended each missing name
\* once, however often and in whatever letter case output_bands repeats it,
\* and has incremented the band counter once per appended name.
C10_RepeatedNameOnce ==
    /\ (pc = "loop" /\ call.fn = "add_indices")
          => \A j \in (Len(call.input_bands) + 1)..Len(lists[frame.xraster.names]) :
                lists[frame.xraster.names][j] \in Range(lists[frame.input_bands])
    /\ Returned
          => LET in == Lowered(call.input_bands)
                 out == Lowered(call.output_bands)
                 r == rasters[ret.val]
                 names == lists[r.names]
             IN /\ \A name \in Range(out) \ Range(in) :
                     /\ Cardinality({j \in DOMAIN names : names[j] = name}) = 1
                     /\ Cardinality({j \in DOMAIN r.data : r.data[j].op = name}) = 1
                /\ frame.n_bands = Len(in) + Cardinality(Range(out) \ Range(in))

C10_Witness ==
    /\ Returned
    /\ call.fn = "add_indices"
    /\ call.output_bands = <<"ndvi", "NDVI">>
    /\ Len(rasters[ret.val].data) = Len(call.input_bands) + 1

====
